---- MODULE Spec2Model ----
(***************************************************************************)
(* Agent registry, A2A mailbox protocol and MCP client of                  *)
(* aws_serverless_agentic_ai, modelled from src/protocol_interfaces.py,    *)
(* src/aws_service_layer.py and src/react_agent_lambda_handler.py.         *)
(*                                                                         *)
(* Spec         the A2A mailbox: send_message and the list / fetch / copy  *)
(*              / delete steps of concurrent get_messages calls.           *)
(* SpecSeq      the same mailbox with one get_messages call at a time.     *)
(* SpecRegistry the agent registry over the key-value directory and the    *)
(*              construction of ReActAgent.                                *)
(* SpecMcp      MCPClient.call under the retry decorator, and the wrappers *)
(*              get_capabilities, expand_context and run_tool.             *)
(* SpecCache    get_mcp_client under lru_cache.                            *)
(* SpecHandler  the Lambda handler of the ReAct agent.                     *)
(* SpecLive     concurrent get_messages calls on a mailbox with pending    *)
(*              messages, or MCP calls, every step of a started call being *)
(*              taken eventually.                                          *)
(***************************************************************************)
EXTENDS Integers, Sequences, FiniteSets, TLC

VARIABLES
    bucket,     \* the message bucket: S3 key -> stored JSON document
    nextId,     \* number of message ids uuid4 has handed out
    calls,      \* number of get_messages calls started
    rc,         \* per receiver: position and locals of its get_messages call
    lastSend,   \* outcome of the latest send_message call
    sent,       \* history: message_id -> the message send_message returned it for
    returned,   \* history: <<agent, message_id>> pairs get_messages has returned
    polled,     \* history (SpecSeq): ids pending at an earlier listing of their recipient
    obs,        \* history (SpecSeq): what the running call found pending when it listed
    table,      \* the registry table: set of stored DynamoDB items
    lastOp,     \* outcome of the latest registry call
    lastReg,    \* history: agent_id -> card of its latest successful register_agent
    replaced,   \* history: agent_ids whose card a different card has replaced
    agents,     \* constructed ReActAgent instances: agent_id -> record
    engines,    \* agent ids an A2AProtocol engine has been bound to
    mc,         \* the MCPClient call in progress, or the latest one made
    cache,      \* lru_cache of get_mcp_client: entries, least recently used first
    made,       \* number of MCPClient instances constructed
    lastGet,    \* outcome of the latest get_mcp_client call
    lastInst,   \* history: (base_url, auth_token) -> instance last returned for it
    recency,    \* history: the pairs requested so far, least recently first
    hd          \* the handler invocation in progress, or the latest one

mailboxVars == <<bucket, nextId, calls, rc, lastSend, sent, returned>>
histVars == <<polled, obs>>
registryVars == <<table, lastOp, lastReg, replaced, agents, engines>>
mcpVars == <<mc>>
cacheVars == <<cache, made, lastGet, lastInst, recency>>
handlerVars == <<hd>>
clientVars == <<mcpVars, cacheVars, handlerVars>>
vars == <<bucket, nextId, calls, rc, lastSend, sent, returned, polled, obs,
          table, lastOp, lastReg, replaced, agents, engines, mc,
          cache, made, lastGet, lastInst, recency, hd>>

None == "None"

(***************************************************************************)
(* Bounds of the model.                                                    *)
(***************************************************************************)
MaxMsgs == 2        \* send_message calls in one behaviour
MaxCalls == 2       \* get_messages calls in one behaviour
MaxClients == 4     \* MCPClient instances constructed in one behaviour
CacheSize == 2      \* lru_cache(maxsize=32), scaled down
MaxElapsed == 2     \* clock ticks one handler invocation lasts

\* Two invocations may run get_messages at once.
Receivers == {"r1", "r2"}
\* "processed" is an ordinary agent_id: event.get("agent_id") is any string.
AgentIds == {"agent-b", "processed"}
\* The engine that sends is bound to agent-a.
SenderIds == {"agent-a"}
\* Values of the limit argument.
Limits == {0, 1, 2}
MsgNames == <<"m1", "m2", "m3", "m4", "m5", "m6">>
MsgId(n) == MsgNames[n]

(***************************************************************************)
(* Python values carried as message content, and their JSON round trip.    *)
(***************************************************************************)
PyStr == [t |-> "str", v |-> "hello"]
PyList == [t |-> "list", v |-> "hello"]
PyTuple == [t |-> "tuple", v |-> "hello"]
PySet == [t |-> "set", v |-> "hello"]
Contents == {PyStr, PyTuple, PySet}
\* Spec sends a JSON string or a value json.dumps refuses.
PlainContents == {PyStr, PySet}

JsonError == [j |-> "TypeError", v |-> ""]

\* json.dumps: a tuple is written as an array like a list; a set is refused.
JsonDumps(x) ==
    CASE x.t = "str" -> [j |-> "string", v |-> x.v]
      [] x.t = "list" -> [j |-> "array", v |-> x.v]
      [] x.t = "tuple" -> [j |-> "array", v |-> x.v]
      [] OTHER -> JsonError

\* json.loads: an array is read as a list.
JsonLoads(d) ==
    IF d.j = "string" THEN [t |-> "str", v |-> d.v] ELSE [t |-> "list", v |-> d.v]

(***************************************************************************)
(* AgentMessage and its stored form.                                       *)
(***************************************************************************)
AgentMessage(mid, sender, recipient, content) ==
    [message_id |-> mid, sender_id |-> sender, recipient_id |-> recipient,
     content |-> content, correlation_id |-> None, ttl |-> None]

\* S3.put_object: a dict body is stored as json.dumps(body).
PutBody(msg) == [msg EXCEPT !.content = JsonDumps(msg.content)]

\* S3.get_object on an application/json object: json.loads(content).
GetBody(doc) == [doc EXCEPT !.content = JsonLoads(doc.content)]

(***************************************************************************)
(* Keys: "messages/agent-b/m1.json" is <<"messages", "agent-b", "m1">>.    *)
(***************************************************************************)
SendKey(recipient, mid) == <<"messages", recipient, mid>>

\* prefix = f"messages/{self.agent_id}/"
HasPrefix(key, agent) == Len(key) >= 3 /\ key[1] = "messages" /\ key[2] = agent

RECURSIVE ReplaceFrom(_, _)
ReplaceFrom(key, i) ==
    IF i > Len(key) THEN <<>>
    ELSE IF i < Len(key) /\ key[i] = "messages"
         THEN <<"messages", "processed">> \o ReplaceFrom(key, i + 1)
         ELSE <<key[i]>> \o ReplaceFrom(key, i + 1)

\* A move that forgets the namespace segment.
NewKeySame(key) == key

\* obj['Key'].replace("messages/", "messages/processed/"): every occurrence.
NewKey(key) == ReplaceFrom(key, 1)

\* [:limit] of a Python list (limit >= 0).
PySliceAll(s, limit) == s

PySlice(s, limit) == SubSeq(s, 1, IF limit < Len(s) THEN limit ELSE Len(s))

Range(s) == {s[i] : i \in DOMAIN s}

\* All orders in which the store may yield a set of keys.
Orders(S) == {s \in [1..Cardinality(S) -> S] : \A k \in S : \E i \in DOMAIN s : s[i] = k}

\* S3.list_objects(bucket, prefix): descriptors of the keys under the prefix.
ListObjects(b, agent) == Orders({k \in DOMAIN b : HasPrefix(k, agent)})

\* S3.copy_object within the bucket.
CopyObject(b, src, dst) == [k \in DOMAIN b \cup {dst} |-> IF k = dst THEN b[src] ELSE b[k]]

\* S3.delete_object: deleting an absent key succeeds.
DeleteObject(b, key) == [k \in DOMAIN b \ {key} |-> b[k]]

PutObject(b, key, doc) == [k \in DOMAIN b \cup {key} |-> IF k = key THEN doc ELSE b[k]]

(***************************************************************************)
(* Receivers.                                                              *)
(***************************************************************************)
\* todo holds the handles of the listing the loop has not reached yet. The order
\* of a listing is the store's, so the next handle is any handle of todo.
IdleRc == [pc |-> "idle", agent |-> None, limit |-> 0, todo |-> {}, cur |-> <<>>,
           messages |-> <<>>, moved |-> 0, error |-> None]
NoObs == [fresh |-> {}, over |-> FALSE]

Running(r) == rc[r].pc \in {"loop", "copy", "delete"}
CurKey(r) == rc[r].cur
\* The loop is over: the next step of r is "return messages".
Returning(r) == rc[r].pc = "loop" /\ rc[r].todo = {}

\* The empty dict {}.
EmptyDict == [k \in {} |-> k]
NoResponse == [status |-> None, data |-> EmptyDict, errors |-> <<>>]
NoBody == [none |-> None]
\* requests counts the requests.post calls, sleeps lists the time.sleep
\* arguments, failures the exceptions the attempts raised, in order; body is
\* the JSON object of the 2xx reply the call received.
IdleMc == [pc |-> "idle", wrapper |-> None, attempt |-> 0, delay |-> 0,
           requests |-> 0, sleeps |-> <<>>, failures |-> <<>>,
           outcome |-> None, error |-> None, body |-> NoBody,
           response |-> NoResponse, result |-> None]

NoEvent == [agent_id |-> None, input |-> None, mcp_tools |-> None]
\* elapsed is time.time() - start_time, in clock ticks; payload is the dict
\* the handler returned.
IdleHd == [pc |-> "idle", event |-> NoEvent, debug |-> FALSE, elapsed |-> 0,
           failed |-> FALSE, payload |-> EmptyDict]

NoOp == [op |-> None, arg |-> None, outcome |-> None, value |-> [kind |-> "none"],
         dirOk |-> TRUE]

Init ==
    /\ bucket = <<>>
    /\ nextId = 0
    /\ calls = 0
    /\ rc = [r \in Receivers |-> IdleRc]
    /\ lastSend = [outcome |-> None, message_id |-> None, puts |-> 0]
    /\ sent = <<>>
    /\ returned = {}
    /\ polled = {}
    /\ obs = NoObs
    /\ table = {}
    /\ lastOp = NoOp
    /\ lastReg = <<>>
    /\ replaced = {}
    /\ agents = <<>>
    /\ engines = {}
    /\ mc = IdleMc
    /\ cache = <<>>
    /\ made = 0
    /\ lastGet = [pair |-> <<None, None>>, inst |-> 0, prev |-> 0, between |-> 0]
    /\ lastInst = <<>>
    /\ recency = <<>>
    /\ hd = IdleHd

(***************************************************************************)
(* A2AProtocol.send_message                                                *)
(***************************************************************************)
SentMessage(sender, recipient, content) ==
    AgentMessage(MsgId(nextId + 1), sender, recipient, content)

\* A send that stamps the recipient as the sender.
StampRecipient(sender, recipient) == recipient

\* sender_id=self.agent_id
StampSender(sender, recipient) == sender

\* The deposit succeeds and the message id is returned.
SendMessage(sender, recipient, content) ==
    LET msg == SentMessage(StampSender(sender, recipient), recipient, content)
        key == SendKey(recipient, msg.message_id)
    IN /\ nextId < MaxMsgs
       /\ JsonDumps(content) # JsonError
       /\ nextId' = nextId + 1
       /\ bucket' = PutObject(bucket, key, PutBody(msg))
       /\ sent' = [m \in DOMAIN sent \cup {msg.message_id} |->
                      IF m = msg.message_id
                      THEN SentMessage(sender, recipient, content) ELSE sent[m]]
       /\ lastSend' = [outcome |-> "returned", message_id |-> msg.message_id, puts |-> 1]
       /\ UNCHANGED <<calls, rc, returned, registryVars, clientVars>>

\* A send that puts again after a failed put, and returns the id.
SendMessageRetried(sender, recipient, content) ==
    LET msg == SentMessage(sender, recipient, content)
    IN /\ nextId < MaxMsgs
       /\ JsonDumps(content) # JsonError
       /\ nextId' = nextId + 1
       /\ bucket' = PutObject(bucket, SendKey(recipient, msg.message_id), PutBody(msg))
       /\ sent' = [m \in DOMAIN sent \cup {msg.message_id} |->
                      IF m = msg.message_id THEN msg ELSE sent[m]]
       /\ lastSend' = [outcome |-> "returned", message_id |-> msg.message_id, puts |-> 2]
       /\ UNCHANGED <<calls, rc, returned, registryVars, clientVars>>

\* json.dumps refuses the body, or the store's put fails: the one call of
\* S3.put_object raises and the error propagates out of send_message.
SendMessageRaises(sender, recipient, content) ==
    /\ nextId < MaxMsgs
    /\ lastSend' = [outcome |-> "raised", message_id |-> None, puts |-> 1]
    /\ UNCHANGED <<bucket, nextId, calls, rc, sent, returned, registryVars, clientVars>>

(***************************************************************************)
(* A2AProtocol.get_messages, one store operation per step.                 *)
(***************************************************************************)
Raised == [IdleRc EXCEPT !.pc = "raised", !.error = "ClientError"]
\* The error of a copy whose source key does not exist.
RaisedNoSuchKey == [IdleRc EXCEPT !.pc = "raised", !.error = "NoSuchKey"]

SetRc(r, new) ==
    rc' = [x \in Receivers |-> IF x = r THEN new ELSE rc[x]]

\* response = S3.list_objects(...); response.get('Contents', [])[:limit]
GmList(r, agent, limit) ==
    /\ ~Running(r)
    /\ calls < MaxCalls
    /\ calls' = calls + 1
    /\ \E order \in ListObjects(bucket, agent) :
         SetRc(r, [IdleRc EXCEPT !.pc = "loop", !.agent = agent, !.limit = limit,
                                 !.todo = Range(PySlice(order, limit))])
    /\ UNCHANGED <<bucket, nextId, lastSend, sent, returned, registryVars, clientVars>>

\* The listing fails: the error propagates out of get_messages.
GmListRaises(r) ==
    /\ ~Running(r)
    /\ calls < MaxCalls
    /\ calls' = calls + 1
    /\ SetRc(r, Raised)
    /\ UNCHANGED <<bucket, nextId, lastSend, sent, returned, registryVars, clientVars>>

\* message_data = S3.get_object(...); if message_data: messages.append(...)
GmFetch(r) ==
    /\ rc[r].pc = "loop"
    /\ \E key \in rc[r].todo :
         /\ key \in DOMAIN bucket
         /\ SetRc(r, [rc[r] EXCEPT !.pc = "copy", !.cur = key, !.todo = @ \ {key},
                                   !.messages = Append(@, GetBody(bucket[key]))])
    /\ UNCHANGED <<bucket, nextId, calls, lastSend, sent, returned, registryVars, clientVars>>

\* get_object returns None on NoSuchKey: the handle is skipped.
GmFetchAbsent(r) ==
    /\ rc[r].pc = "loop"
    /\ \E key \in rc[r].todo :
         /\ key \notin DOMAIN bucket
         /\ SetRc(r, [rc[r] EXCEPT !.todo = @ \ {key}])
    /\ UNCHANGED <<bucket, nextId, calls, lastSend, sent, returned, registryVars, clientVars>>

\* A move that does not copy before it deletes.
GmCopySkipped(r) ==
    /\ rc[r].pc = "copy"
    /\ CurKey(r) \in DOMAIN bucket
    /\ SetRc(r, [rc[r] EXCEPT !.pc = "delete", !.moved = @ + 1])
    /\ UNCHANGED <<bucket, nextId, calls, lastSend, sent, returned, registryVars, clientVars>>

\* S3.copy_object(self.message_bucket, obj['Key'], self.message_bucket, new_key)
GmCopy(r) ==
    /\ rc[r].pc = "copy"
    /\ CurKey(r) \in DOMAIN bucket
    /\ bucket' = CopyObject(bucket, CurKey(r), NewKey(CurKey(r)))
    /\ SetRc(r, [rc[r] EXCEPT !.pc = "delete", !.moved = @ + 1])
    /\ UNCHANGED <<nextId, calls, lastSend, sent, returned, registryVars, clientVars>>

\* The source key is gone (another receiver deleted it): the copy raises.
GmCopyMissing(r) ==
    /\ rc[r].pc = "copy"
    /\ CurKey(r) \notin DOMAIN bucket
    /\ SetRc(r, RaisedNoSuchKey)
    /\ UNCHANGED <<bucket, nextId, calls, lastSend, sent, returned, registryVars, clientVars>>

\* A loop that starts over on the same handle instead of advancing past it.
GmDeleteRepeats(r) ==
    /\ rc[r].pc = "delete"
    /\ SetRc(r, [rc[r] EXCEPT !.pc = "loop", !.cur = <<>>, !.todo = @ \cup {rc[r].cur},
                              !.messages = <<>>, !.moved = 0])
    /\ UNCHANGED <<bucket, nextId, calls, lastSend, sent, returned, registryVars, clientVars>>

\* S3.delete_object(self.message_bucket, obj['Key'])
GmDelete(r) ==
    /\ rc[r].pc = "delete"
    /\ bucket' = DeleteObject(bucket, CurKey(r))
    /\ SetRc(r, [rc[r] EXCEPT !.pc = "loop", !.cur = <<>>])
    /\ UNCHANGED <<nextId, calls, lastSend, sent, returned, registryVars, clientVars>>

\* A fetch, copy or delete fails in the store: the error propagates.
GmStoreRaises(r) ==
    /\ Running(r)
    /\ ~Returning(r)
    /\ SetRc(r, Raised)
    /\ UNCHANGED <<bucket, nextId, calls, lastSend, sent, returned, registryVars, clientVars>>

\* return messages
GmReturn(r) ==
    /\ Returning(r)
    /\ SetRc(r, [IdleRc EXCEPT !.pc = "done"])
    /\ returned' = returned \cup {<<rc[r].agent, rc[r].messages[i].message_id>> :
                                     i \in DOMAIN rc[r].messages}
    /\ UNCHANGED <<bucket, nextId, calls, lastSend, sent, registryVars, clientVars>>

\* The receiving process dies between two steps.
Crash(r) ==
    /\ Running(r)
    /\ SetRc(r, IdleRc)
    /\ UNCHANGED <<bucket, nextId, calls, lastSend, sent, returned, registryVars, clientVars>>

\* History of SpecSeq: what was pending, and not listed before, at this listing.
TrackList(agent, limit) ==
    LET fresh == {m \in DOMAIN sent : sent[m].recipient_id = agent /\ m \notin polled}
    IN /\ polled' = polled \cup fresh
       /\ obs' = [fresh |-> fresh,
                  over |-> Cardinality({k \in DOMAIN bucket : HasPrefix(k, agent)}) > limit]

Next ==
    \/ \E s \in SenderIds, a \in AgentIds, c \in PlainContents :
          SendMessage(s, a, c) /\ UNCHANGED histVars
    \/ \E s \in SenderIds, a \in AgentIds, c \in PlainContents :
          SendMessageRaises(s, a, c) /\ UNCHANGED histVars
    \/ \E r \in Receivers, a \in AgentIds, n \in Limits :
          GmList(r, a, n) /\ UNCHANGED histVars
    \/ \E r \in Receivers : GmListRaises(r) /\ UNCHANGED histVars
    \/ \E r \in Receivers : GmFetch(r) /\ UNCHANGED histVars
    \/ \E r \in Receivers : GmFetchAbsent(r) /\ UNCHANGED histVars
    \/ \E r \in Receivers : GmCopy(r) /\ UNCHANGED histVars
    \/ \E r \in Receivers : GmCopyMissing(r) /\ UNCHANGED histVars
    \/ \E r \in Receivers : GmDelete(r) /\ UNCHANGED histVars
    \/ \E r \in Receivers : GmStoreRaises(r) /\ UNCHANGED histVars
    \/ \E r \in Receivers : GmReturn(r) /\ UNCHANGED histVars
    \/ \E r \in Receivers : Crash(r) /\ UNCHANGED histVars

Spec == Init /\ [][Next]_vars

\* One engine at a time: every get_messages call runs with no other receiver.
NextSeq ==
    \/ \E s \in SenderIds, a \in AgentIds, c \in Contents :
          SendMessage(s, a, c) /\ UNCHANGED histVars
    \/ \E s \in SenderIds, a \in AgentIds, c \in Contents :
          SendMessageRaises(s, a, c) /\ UNCHANGED histVars
    \/ \E a \in AgentIds, n \in Limits : GmList("r1", a, n) /\ TrackList(a, n)
    \/ GmListRaises("r1") /\ UNCHANGED histVars
    \/ GmFetch("r1") /\ UNCHANGED histVars
    \/ GmCopy("r1") /\ UNCHANGED histVars
    \/ GmDelete("r1") /\ UNCHANGED histVars
    \/ GmStoreRaises("r1") /\ UNCHANGED histVars
    \/ GmReturn("r1") /\ UNCHANGED histVars
    \/ Crash("r1") /\ UNCHANGED histVars

SpecSeq == Init /\ [][NextSeq]_vars

(***************************************************************************)
(* AgentCard and the DynamoDB item it is stored as.                        *)
(* A card keeps the fields agent_id, name, capabilities, auth_required,    *)
(* rate_limit and metadata; description and version are strings like name, *)
(* input_schema and output_schema are dicts like metadata.                 *)
(***************************************************************************)
PyNone == [t |-> "NoneType", v |-> "None"]
PyFalse == [t |-> "bool", v |-> "False"]
PyInt == [t |-> "int", v |-> "10"]
PyFloat == [t |-> "float", v |-> "0.5"]
PyEmptyDict == [t |-> "dict", v |-> "{}"]
PyRegion == [t |-> "str", v |-> "eu-west-1"]

RegAgentIds == {"a1", "a2"}
Capabilities == {"search", "plan"}
\* _tools_registry of the process: one registered tool.
ToolNames == <<"search">>
AgentName(a) == IF a = "a1" THEN "Agent-a1" ELSE "Agent-a2"

Cards == [agent_id : RegAgentIds, name : {"planner"}, capabilities : {<<"plan", "search">>},
          auth_required : {PyFalse}, rate_limit : {PyNone, PyInt},
          metadata : {PyRegion, PyTuple, PyFloat}]

SerializeError == [dt |-> "TypeError", v |-> ""]

\* TypeSerializer().serialize: a float is refused, a number is written as text,
\* a list and a tuple are both written as an L attribute.
Serialize(x) ==
    CASE x.t = "str" -> [dt |-> "S", v |-> x.v]
      [] x.t = "int" -> [dt |-> "N", v |-> x.v]
      [] x.t = "bool" -> [dt |-> "BOOL", v |-> x.v]
      [] x.t = "NoneType" -> [dt |-> "NULL", v |-> "True"]
      [] x.t = "dict" -> [dt |-> "M", v |-> x.v]
      [] x.t \in {"list", "tuple"} -> [dt |-> "L", v |-> x.v]
      [] OTHER -> SerializeError

\* A deserializer that reads a NULL attribute as the number 0.
DeserializeNullAsZero(a) ==
    CASE a.dt = "S" -> [t |-> "str", v |-> a.v]
      [] a.dt = "N" -> [t |-> "Decimal", v |-> a.v]
      [] a.dt = "BOOL" -> [t |-> "bool", v |-> a.v]
      [] a.dt = "NULL" -> [t |-> "Decimal", v |-> "0"]
      [] a.dt = "L" -> [t |-> "list", v |-> a.v]
      [] OTHER -> [t |-> "dict", v |-> a.v]

\* TypeDeserializer().deserialize: a number is read as a Decimal.
Deserialize(a) ==
    CASE a.dt = "S" -> [t |-> "str", v |-> a.v]
      [] a.dt = "N" -> [t |-> "Decimal", v |-> a.v]
      [] a.dt = "BOOL" -> [t |-> "bool", v |-> a.v]
      [] a.dt = "NULL" -> PyNone
      [] a.dt = "L" -> [t |-> "list", v |-> a.v]
      [] OTHER -> [t |-> "dict", v |-> a.v]

\* agent_card.to_dict() serialized to the item's attribute map.
SerializeItem(card) ==
    [agent_id |-> [dt |-> "S", v |-> card.agent_id],
     name |-> [dt |-> "S", v |-> card.name],
     capabilities |-> [dt |-> "L",
                       v |-> [i \in DOMAIN card.capabilities |->
                                 [dt |-> "S", v |-> card.capabilities[i]]]],
     auth_required |-> Serialize(card.auth_required),
     rate_limit |-> Serialize(card.rate_limit),
     metadata |-> Serialize(card.metadata)]

Serializable(card) ==
    \A x \in {card.auth_required, card.rate_limit, card.metadata} :
        Serialize(x) # SerializeError

\* AgentCard.from_dict of the deserialized item.
FromItem(item) ==
    [agent_id |-> item.agent_id.v,
     name |-> item.name.v,
     capabilities |-> [i \in DOMAIN item.capabilities.v |-> item.capabilities.v[i].v],
     auth_required |-> Deserialize(item.auth_required),
     rate_limit |-> Deserialize(item.rate_limit),
     metadata |-> Deserialize(item.metadata)]

\* Python's == on two values: an int and a Decimal of the same value are equal,
\* a tuple and a list never are.
PyEq(x, y) ==
    \/ x = y
    \/ x.t \in {"int", "Decimal"} /\ y.t \in {"int", "Decimal"} /\ x.v = y.v

\* The __eq__ that @dataclass generates: equal field by field.
CardEq(c, d) ==
    /\ c.agent_id = d.agent_id
    /\ c.name = d.name
    /\ c.capabilities = d.capabilities
    /\ PyEq(c.auth_required, d.auth_required)
    /\ PyEq(c.rate_limit, d.rate_limit)
    /\ PyEq(c.metadata, d.metadata)

\* A put that adds the item beside the one stored under the same key.
PutItemBeside(t, item) == t \cup {item}

\* put_item: the item replaces the one stored under the same agent_id.
PutItem(t, item) == {i \in t : i.agent_id # item.agent_id} \cup {item}

\* get_item by the key {"agent_id": agent_id}.
ItemsOf(t, id) == {i \in t : i.agent_id.v = id}

(***************************************************************************)
(* AgentRegistry                                                           *)
(***************************************************************************)
BoolValue(b) == [kind |-> "bool", b |-> b]
CardValue(c) == [kind |-> "card", card |-> c]
NoneValue == [kind |-> "none"]
ErrorValue(e) == [kind |-> "error", error |-> e]

\* Whether DynamoDB.put(self.table_name, agent_card.to_dict()) completes.
PutCompletes(card, dirOk) == Serializable(card) /\ dirOk

\* A register_agent without the try/except: a failed put raises.
RegisterOutcomeUnguarded(card, dirOk) ==
    IF PutCompletes(card, dirOk)
    THEN [outcome |-> "returned", value |-> BoolValue(TRUE)]
    ELSE [outcome |-> "raised", value |-> ErrorValue("Exception")]

\* try: ... return True / except Exception: return False
RegisterOutcome(card, dirOk) ==
    [outcome |-> "returned", value |-> BoolValue(PutCompletes(card, dirOk))]

Registered(card, dirOk) ==
    LET ok == PutCompletes(card, dirOk)
        id == card.agent_id
    IN /\ table' = IF ok THEN PutItem(table, SerializeItem(card)) ELSE table
       /\ lastReg' = IF ok
                     THEN [a \in DOMAIN lastReg \cup {id} |->
                              IF a = id THEN card ELSE lastReg[a]]
                     ELSE lastReg
       /\ replaced' = IF ok /\ id \in DOMAIN lastReg /\ lastReg[id] # card
                      THEN replaced \cup {id}
                      ELSE replaced

RegisterAgent(card, dirOk) ==
    /\ Registered(card, dirOk)
    /\ lastOp' = [op |-> "register", arg |-> card.agent_id,
                  outcome |-> RegisterOutcome(card, dirOk).outcome,
                  value |-> RegisterOutcome(card, dirOk).value,
                  dirOk |-> dirOk]
    /\ UNCHANGED <<agents, engines, mailboxVars, histVars, clientVars>>

\* A lookup that reports a directory failure as "not registered".
GetAgentOutcomeSwallowing(id, dirOk) ==
    IF dirOk /\ ItemsOf(table, id) # {}
    THEN [outcome |-> "returned",
          value |-> CardValue(FromItem(CHOOSE i \in ItemsOf(table, id) : TRUE))]
    ELSE [outcome |-> "returned", value |-> NoneValue]

\* result = DynamoDB.get(...); AgentCard.from_dict(result) if result else None
GetAgentOutcome(id, dirOk) ==
    IF ~dirOk THEN [outcome |-> "raised", value |-> ErrorValue("ClientError")]
    ELSE IF ItemsOf(table, id) = {} THEN [outcome |-> "returned", value |-> NoneValue]
    ELSE [outcome |-> "returned",
          value |-> CardValue(FromItem(CHOOSE i \in ItemsOf(table, id) : TRUE))]

GetAgent(id, dirOk) ==
    /\ lastOp' = [op |-> "get", arg |-> id,
                  outcome |-> GetAgentOutcome(id, dirOk).outcome,
                  value |-> GetAgentOutcome(id, dirOk).value,
                  dirOk |-> dirOk]
    /\ UNCHANGED <<table, lastReg, replaced, agents, engines, mailboxVars, histVars, clientVars>>

\* def query(table_name, key_condition, index_name=None)
QueryParameters == {"table_name", "key_condition", "index_name"}
\* DynamoDB.query(..., expression_values={":cap": capability})
QueryCallKeywords == {"expression_values"}

CardsValue(cs) == [kind |-> "cards", cards |-> cs]
\* The cards of the items whose capabilities contain the tag.
CardsWith(t, capability) ==
    {FromItem(i) : i \in {j \in t : \E n \in DOMAIN j.capabilities.v :
                                      j.capabilities.v[n].v = capability}}

\* The call passes a keyword query() does not take: Python raises TypeError
\* when it binds the arguments, before the directory is reached.
FindOutcome(capability, dirOk) ==
    IF ~(QueryCallKeywords \subseteq QueryParameters)
    THEN [outcome |-> "raised", value |-> ErrorValue("TypeError")]
    ELSE IF ~dirOk THEN [outcome |-> "raised", value |-> ErrorValue("ClientError")]
    ELSE [outcome |-> "returned", value |-> CardsValue(CardsWith(table, capability))]

FindAgentsByCapability(capability, dirOk) ==
    /\ lastOp' = [op |-> "find", arg |-> capability,
                  outcome |-> FindOutcome(capability, dirOk).outcome,
                  value |-> FindOutcome(capability, dirOk).value,
                  dirOk |-> dirOk]
    /\ UNCHANGED <<table, lastReg, replaced, agents, engines, mailboxVars, histVars, clientVars>>

(***************************************************************************)
(* ReActAgent.__init__ and what a constructed agent can do.                *)
(***************************************************************************)
\* The card of _register_agent, for an agent whose stored state is empty.
OwnCard(a) ==
    [agent_id |-> a, name |-> AgentName(a), capabilities |-> ToolNames,
     auth_required |-> PyFalse, rate_limit |-> PyNone, metadata |-> PyEmptyDict]

\* __init__ ends with self._register_agent(), whose result it drops; the agent
\* exists once __init__ returns, which it does unless register_agent raises.
Construct(a, dirOk) ==
    /\ Registered(OwnCard(a), dirOk)
    /\ agents' = IF RegisterOutcome(OwnCard(a), dirOk).outcome = "returned"
                 THEN [x \in DOMAIN agents \cup {a} |->
                          IF x = a
                          THEN [registered |-> PutCompletes(OwnCard(a), dirOk),
                                processed |-> FALSE]
                          ELSE agents[x]]
                 ELSE agents
    /\ lastOp' = [op |-> "construct", arg |-> a,
                  outcome |-> RegisterOutcome(OwnCard(a), dirOk).outcome,
                  value |-> NoneValue, dirOk |-> dirOk]
    /\ UNCHANGED <<engines, mailboxVars, histVars, clientVars>>

\* agent.process(input_text, context), which handler calls once on the agent
\* it constructed.
Process(a) ==
    /\ a \in DOMAIN agents
    /\ ~agents[a].processed
    /\ agents' = [agents EXCEPT ![a].processed = TRUE]
    /\ lastOp' = [NoOp EXCEPT !.op = "process", !.arg = a, !.outcome = "returned"]
    /\ UNCHANGED <<table, lastReg, replaced, engines, mailboxVars, histVars, clientVars>>

\* A2AProtocol(agent_id, message_bucket, agent.registry)
BindEngine(a) ==
    /\ a \in DOMAIN agents
    /\ a \notin engines
    /\ engines' = engines \cup {a}
    /\ lastOp' = [NoOp EXCEPT !.op = "bind", !.arg = a, !.outcome = "returned"]
    /\ UNCHANGED <<table, lastReg, replaced, agents, mailboxVars, histVars, clientVars>>

NextRegistry ==
    \/ \E c \in Cards, ok \in BOOLEAN : RegisterAgent(c, ok)
    \/ \E a \in RegAgentIds, ok \in BOOLEAN : GetAgent(a, ok)
    \/ \E c \in Capabilities, ok \in BOOLEAN : FindAgentsByCapability(c, ok)
    \/ \E a \in RegAgentIds, ok \in BOOLEAN : Construct(a, ok)
    \/ \E a \in RegAgentIds : Process(a)
    \/ \E a \in RegAgentIds : BindEngine(a)

SpecRegistry == Init /\ [][NextRegistry]_vars

(***************************************************************************)
(* MCPClient.call under @retry(max_attempts=3), and its wrappers.          *)
(***************************************************************************)
MaxAttempts == 3    \* @retry(max_attempts=3)
BaseDelay == 1      \* base_delay=0.1: delays are counted in tenths of a second
Exponential == TRUE \* exponential=True

Wrappers == {"call", "get_capabilities", "expand_context", "run_tool"}
\* What an attempt can raise: requests.post (connection error, timeout),
\* response.raise_for_status() (non-2xx), response.json() (body is not JSON).
AttemptExceptions == {"ConnectionError", "Timeout", "HTTPError", "JSONDecodeError"}

\* d.get(k, default)
DictGet(d, k, default) == IF k \in DOMAIN d THEN d[k] ELSE default
Restrict(d, keys) == [k \in keys |-> d[k]]

\* "data": null in the reply.
NullData == [null |-> "null"]
Statuses == {"success", "error", "partial"}
DataValues == {[capabilities |-> <<"search", "plan">>], [output |-> "42"],
               EmptyDict, NullData}
ErrorLists == {<<>>, <<"E1", "E2">>}
\* The JSON objects a 2xx reply can carry: each key present or not.
Bodies ==
    {Restrict(b, keys) : b \in [status : Statuses, data : DataValues, errors : ErrorLists],
                         keys \in SUBSET {"status", "data", "errors"}}

\* MCPResponse(status=result.get("status", "error"), data=result.get("data", {}),
\*             errors=result.get("errors", []), ...)
MCPResponse(body) ==
    [status |-> DictGet(body, "status", "error"),
     data |-> DictGet(body, "data", EmptyDict),
     errors |-> DictGet(body, "errors", <<>>)]

\* MCPResponse.success
Success(response) == response.status = "success"

Returns(v) == [outcome |-> "returned", error |-> None, result |-> v]
Raises(e) == [outcome |-> "raised", error |-> e, result |-> None]

\* A get_capabilities that reads the capability list whatever the status.
GetCapabilitiesUnchecked(response) ==
    IF response.data = NullData THEN Raises("AttributeError")
    ELSE Returns(DictGet(response.data, "capabilities", <<>>))

\* response.data.get("capabilities", []) if response.success else []
GetCapabilities(response) ==
    IF ~Success(response) THEN Returns(<<>>)
    ELSE IF response.data = NullData THEN Raises("AttributeError")
    ELSE Returns(DictGet(response.data, "capabilities", <<>>))

\* response.data.get("expanded_context", {}) if response.success else {}
ExpandContext(response) ==
    IF ~Success(response) THEN Returns(EmptyDict)
    ELSE IF response.data = NullData THEN Raises("AttributeError")
    ELSE Returns(DictGet(response.data, "expanded_context", EmptyDict))

\* A run_tool that returns the data whatever the status.
RunToolUnchecked(response) == Returns(response.data)

\* response.data if response.success else {"error": response.errors}
RunTool(response) ==
    IF Success(response) THEN Returns(response.data)
    ELSE Returns([error |-> response.errors])

WrapperResult(w, response) ==
    CASE w = "get_capabilities" -> GetCapabilities(response)
      [] w = "expand_context" -> ExpandContext(response)
      [] w = "run_tool" -> RunTool(response)
      [] OTHER -> Returns(response)

\* A caller invokes call, or a wrapper that invokes it: wrapper() enters the
\* loop with delay = base_delay.
McStart(w) ==
    /\ mc.pc \in {"idle", "done"}
    /\ mc' = [IdleMc EXCEPT !.pc = "attempt", !.wrapper = w, !.delay = BaseDelay]
    /\ UNCHANGED <<mailboxVars, histVars, registryVars, cacheVars, handlerVars>>

\* A retry loop that raises the first exception it caught.
FirstException(failures) == failures[1]

\* raise last_exception
LastException(failures) == failures[Len(failures)]

\* A backoff that keeps the delay.
NextDelaySame(delay) == delay

\* delay *= 2
NextDelay(delay) == delay * 2

\* One attempt whose func raises: except Exception records it, then sleeps
\* unless this was the last attempt; after the last attempt the loop ends and
\* last_exception is raised.
McAttemptFails(f) ==
    /\ mc.pc = "attempt"
    /\ LET failures == Append(mc.failures, f)
       IN mc' = IF mc.attempt < MaxAttempts - 1
                THEN [mc EXCEPT !.requests = @ + 1, !.failures = failures,
                                !.attempt = @ + 1,
                                !.sleeps = Append(@, IF Exponential THEN mc.delay
                                                     ELSE BaseDelay),
                                !.delay = IF Exponential THEN NextDelay(@) ELSE @]
                ELSE [mc EXCEPT !.requests = @ + 1, !.failures = failures,
                                !.pc = "done", !.outcome = "raised",
                                !.error = LastException(failures)]
    /\ UNCHANGED <<mailboxVars, histVars, registryVars, cacheVars, handlerVars>>

\* A call that raises on a reply whose status is not "success", so that the
\* retry loop catches it like a transport failure.
McAttemptRepliesChecked(body) ==
    /\ mc.pc = "attempt"
    /\ mc' = IF Success(MCPResponse(body))
             THEN [mc EXCEPT !.requests = @ + 1, !.pc = "done", !.body = body,
                             !.response = MCPResponse(body),
                             !.outcome = WrapperResult(mc.wrapper, MCPResponse(body)).outcome,
                             !.error = WrapperResult(mc.wrapper, MCPResponse(body)).error,
                             !.result = WrapperResult(mc.wrapper, MCPResponse(body)).result]
             ELSE IF mc.attempt < MaxAttempts - 1
             THEN [mc EXCEPT !.requests = @ + 1, !.attempt = @ + 1, !.body = body,
                             !.failures = Append(@, "StatusError"),
                             !.sleeps = Append(@, mc.delay), !.delay = NextDelay(@)]
             ELSE [mc EXCEPT !.requests = @ + 1, !.pc = "done", !.outcome = "raised",
                             !.body = body, !.failures = Append(@, "StatusError"),
                             !.error = "StatusError"]
    /\ UNCHANGED <<mailboxVars, histVars, registryVars, cacheVars, handlerVars>>

\* One attempt that gets a 2xx reply with a JSON object: func returns the
\* MCPResponse, wrapper returns it, and the calling wrapper method finishes.
McAttemptReplies(body) ==
    /\ mc.pc = "attempt"
    /\ LET response == MCPResponse(body)
           r == WrapperResult(mc.wrapper, response)
       IN mc' = [mc EXCEPT !.requests = @ + 1, !.pc = "done", !.body = body,
                           !.response = response,
                           !.outcome = r.outcome, !.error = r.error,
                           !.result = r.result]
    /\ UNCHANGED <<mailboxVars, histVars, registryVars, cacheVars, handlerVars>>

NextMcp ==
    \/ \E w \in Wrappers : McStart(w)
    \/ \E f \in AttemptExceptions : McAttemptFails(f)
    \/ \E b \in Bodies : McAttemptReplies(b)

SpecMcp == Init /\ [][NextMcp]_vars

(***************************************************************************)
(* get_mcp_client under @lru_cache(maxsize=32).                            *)
(***************************************************************************)
\* The (base_url, auth_token) arguments; add_mcp_tool passes both positionally.
Pairs == {"https://a", "https://b"} \X {None, "t1"}

Index(c, pair) == CHOOSE i \in DOMAIN c : c[i].pair = pair
Cached(c, pair) == \E i \in DOMAIN c : c[i].pair = pair
Without(c, i) == SubSeq(c, 1, i - 1) \o SubSeq(c, i + 1, Len(c))

\* An eviction that drops the most recently used entry.
EvictNewest(c) == SubSeq(c, 1, Len(c) - 1)

\* A full cache drops its least recently used entry.
Evict(c) == Tail(c)

\* History kept on every call.
TrackGet(pair, inst) ==
    LET seen == pair \in DOMAIN lastInst
        at == CHOOSE i \in DOMAIN recency : recency[i] = pair
    IN /\ lastGet' = [pair |-> pair, inst |-> inst,
                      prev |-> IF seen THEN lastInst[pair] ELSE 0,
                      between |-> IF seen THEN Len(recency) - at ELSE 0]
       /\ lastInst' = [q \in DOMAIN lastInst \cup {pair} |->
                          IF q = pair THEN inst ELSE lastInst[q]]
       /\ recency' = IF seen THEN Append(Without(recency, at), pair)
                     ELSE Append(recency, pair)

\* The key is in the cache: the cached instance is returned and becomes the
\* most recently used entry.
GetMcpClientHit(pair) ==
    /\ Cached(cache, pair)
    /\ LET i == Index(cache, pair)
       IN /\ cache' = Append(Without(cache, i), cache[i])
          /\ TrackGet(pair, cache[i].inst)
    /\ UNCHANGED <<made, mailboxVars, histVars, registryVars, mcpVars, handlerVars>>

\* The key is not in the cache: MCPClient(base_url, auth_token) is constructed
\* and stored, in the place of the least recently used entry when full.
GetMcpClientMiss(pair) ==
    /\ ~Cached(cache, pair)
    /\ made < MaxClients
    /\ made' = made + 1
    /\ cache' = Append(IF Len(cache) >= CacheSize THEN Evict(cache) ELSE cache,
                       [pair |-> pair, inst |-> made + 1])
    /\ TrackGet(pair, made + 1)
    /\ UNCHANGED <<mailboxVars, histVars, registryVars, mcpVars, handlerVars>>

NextCache ==
    \/ \E pair \in Pairs : GetMcpClientHit(pair)
    \/ \E pair \in Pairs : GetMcpClientMiss(pair)

SpecCache == Init /\ [][NextCache]_vars

(***************************************************************************)
(* handler(event, context) of react_agent_lambda_handler.py, one stage of  *)
(* its try block per step.                                                 *)
(***************************************************************************)
\* event.get("agent_id") and event.get("input") are None when the key is
\* missing; mcp_tools is missing, a well-formed list, or a list with an entry
\* that lacks "url".
Events == [agent_id : {None, "", "a1"}, input : {None, "hi"},
           mcp_tools : {None, "listed", "malformed"}]
\* if not agent_id / if not input_text
Falsy(v) == v = None \/ v = ""
HandlerExceptions == {"RuntimeError", "ImportError"}

\* The dict the except clause returns.
ErrorPayload(e, elapsed, debug) ==
    IF debug
    THEN [error |-> e, traceback |-> "traceback", execution_time |-> elapsed]
    ELSE [error |-> e, execution_time |-> elapsed]

\* start_time = time.time(); DEBUG is the flag of the process that runs the
\* invocation.
HStart(event, debug) ==
    /\ hd.pc \in {"idle", "done"}
    /\ hd' = [IdleHd EXCEPT !.pc = "validate", !.event = event, !.debug = debug]
    /\ UNCHANGED <<mailboxVars, histVars, registryVars, mcpVars, cacheVars>>

\* Time passes while the invocation runs.
HTick ==
    /\ hd.pc \notin {"idle", "done"}
    /\ hd.elapsed < MaxElapsed
    /\ hd' = [hd EXCEPT !.elapsed = @ + 1]
    /\ UNCHANGED <<mailboxVars, histVars, registryVars, mcpVars, cacheVars>>

\* return {"error": "Missing agent_id"} / return {"error": "Missing input"}
HValidateFails ==
    /\ hd.pc = "validate"
    /\ Falsy(hd.event.agent_id) \/ Falsy(hd.event.input)
    /\ hd' = [hd EXCEPT !.pc = "done", !.failed = TRUE,
                        !.payload = IF Falsy(hd.event.agent_id)
                                    THEN [error |-> "Missing agent_id"]
                                    ELSE [error |-> "Missing input"]]
    /\ UNCHANGED <<mailboxVars, histVars, registryVars, mcpVars, cacheVars>>

HValidate ==
    /\ hd.pc = "validate"
    /\ ~Falsy(hd.event.agent_id) /\ ~Falsy(hd.event.input)
    /\ hd' = [hd EXCEPT !.pc = "construct"]
    /\ UNCHANGED <<mailboxVars, histVars, registryVars, mcpVars, cacheVars>>

\* agent = ReActAgent(agent_id, system_prompt)
HConstruct ==
    /\ hd.pc = "construct"
    /\ hd' = [hd EXCEPT !.pc = "tools"]
    /\ UNCHANGED <<mailboxVars, histVars, registryVars, mcpVars, cacheVars>>

\* The add_tool and add_mcp_tool loops.
HAddTools ==
    /\ hd.pc = "tools"
    /\ hd.event.mcp_tools # "malformed"
    /\ hd' = [hd EXCEPT !.pc = "process"]
    /\ UNCHANGED <<mailboxVars, histVars, registryVars, mcpVars, cacheVars>>

\* A stage of the try block raises: mcp_tool["url"] raises KeyError on a
\* malformed entry, any stage can raise otherwise; except Exception returns
\* the error payload.
HExcept(e) ==
    /\ hd.pc \in {"construct", "tools", "process"}
    /\ e = "KeyError" <=> (hd.pc = "tools" /\ hd.event.mcp_tools = "malformed")
    /\ hd' = [hd EXCEPT !.pc = "done", !.failed = TRUE,
                        !.payload = ErrorPayload(e, hd.elapsed, hd.debug)]
    /\ UNCHANGED <<mailboxVars, histVars, registryVars, mcpVars, cacheVars>>

\* result = agent.process(...); result["execution_time"] = ...; return result
HProcess ==
    /\ hd.pc = "process"
    /\ hd' = [hd EXCEPT !.pc = "done",
                        !.payload = [agent_id |-> hd.event.agent_id, output |-> "output",
                                     execution_time |-> hd.elapsed,
                                     remaining_time |-> "remaining"]]
    /\ UNCHANGED <<mailboxVars, histVars, registryVars, mcpVars, cacheVars>>

NextHandler ==
    \/ \E e \in Events, d \in BOOLEAN : HStart(e, d)
    \/ HTick
    \/ HValidateFails
    \/ HValidate
    \/ HConstruct
    \/ HAddTools
    \/ \E e \in HandlerExceptions \cup {"KeyError"} : HExcept(e)
    \/ HProcess

SpecHandler == Init /\ [][NextHandler]_vars

(***************************************************************************)
(* Termination: get_messages calls and MCP calls whose steps are scheduled.*)
(***************************************************************************)
\* The mailbox of agent-b after n deposits by agent-a.
PendingIds(n) == {MsgId(i) : i \in 1..n}
PendingMessage(m) == AgentMessage(m, "agent-a", "agent-b", PyStr)
Pending(n) ==
    [k \in {SendKey("agent-b", m) : m \in PendingIds(n)} |->
        PutBody(PendingMessage(k[3]))]

InitLive ==
    /\ \E n \in 0..MaxMsgs :
          /\ bucket = Pending(n)
          /\ nextId = n
          /\ sent = [m \in PendingIds(n) |-> PendingMessage(m)]
    /\ calls = 0
    /\ rc = [r \in Receivers |-> IdleRc]
    /\ lastSend = [outcome |-> None, message_id |-> None, puts |-> 0]
    /\ returned = {}
    /\ polled = {}
    /\ obs = NoObs
    /\ table = {}
    /\ lastOp = NoOp
    /\ lastReg = <<>>
    /\ replaced = {}
    /\ agents = <<>>
    /\ engines = {}
    /\ mc = IdleMc
    /\ cache = <<>>
    /\ made = 0
    /\ lastGet = [pair |-> <<None, None>>, inst |-> 0, prev |-> 0, between |-> 0]
    /\ lastInst = <<>>
    /\ recency = <<>>
    /\ hd = IdleHd

\* The next statement of r's get_messages call, whatever it finds in the store.
GmStep(r) ==
    \/ GmFetch(r) /\ UNCHANGED histVars
    \/ GmFetchAbsent(r) /\ UNCHANGED histVars
    \/ GmCopy(r) /\ UNCHANGED histVars
    \/ GmCopyMissing(r) /\ UNCHANGED histVars
    \/ GmDelete(r) /\ UNCHANGED histVars
    \/ GmReturn(r) /\ UNCHANGED histVars

\* One attempt ends in a failure, a timeout or a reply: requests.post(...,
\* timeout=30) ends every attempt, and time.sleep returns.
McAttempt ==
    \/ \E f \in AttemptExceptions : McAttemptFails(f)
    \/ \E b \in Bodies : McAttemptReplies(b)

\* The process of a behaviour makes get_messages calls or MCP calls: the two
\* loops share no state, so a behaviour follows the one it started with.
MailboxUntouched == calls = 0
McpUntouched == mc.pc = "idle"

NextLive ==
    \/ \E r \in Receivers, n \in Limits :
          McpUntouched /\ GmList(r, "agent-b", n) /\ UNCHANGED histVars
    \/ \E r \in Receivers : GmStep(r)
    \/ \E r \in Receivers : GmStoreRaises(r) /\ UNCHANGED histVars
    \/ \E w \in Wrappers : MailboxUntouched /\ McStart(w)
    \/ McAttempt

SpecLive ==
    /\ InitLive
    /\ [][NextLive]_vars
    /\ \A r \in Receivers : WF_vars(GmStep(r))
    /\ WF_vars(McAttempt)

(***************************************************************************)
(* Claims about the mailbox.                                               *)
(***************************************************************************)
Holds(k, mid) == k \in DOMAIN bucket /\ bucket[k].message_id = mid
\* The processed namespace is the keys under messages/processed/.
InProcessed(mid) == \E k \in DOMAIN bucket : HasPrefix(k, "processed") /\ Holds(k, mid)
InUnprocessed(agent, mid) == \E k \in DOMAIN bucket : HasPrefix(k, agent) /\ Holds(k, mid)

Delivered(r, m) ==
    \E i \in DOMAIN rc[r].messages :
        /\ rc[r].messages[i].message_id = m
        /\ rc[r].messages[i].sender_id = sent[m].sender_id
        /\ rc[r].messages[i].content = sent[m].content

\* The call of r1 returns, and no more keys were pending than its limit.
WithinLimitReturn == Returning("r1") /\ ~obs.over

C2_ReturnedAtMostOnce ==
    [][\A r \in Receivers :
          (Returning(r) /\ rc'[r].pc = "done") =>
              \A i \in DOMAIN rc[r].messages :
                  /\ <<rc[r].agent, rc[r].messages[i].message_id>> \notin returned
                  /\ \A j \in DOMAIN rc[r].messages :
                        rc[r].messages[j].message_id = rc[r].messages[i].message_id
                            => j = i]_vars

\* C3 (Spec): every deposited message is held under at least one key of the
\* bucket (its recipient's unprocessed namespace or the processed namespace),
\* also after a crash between the copy and the delete of a move.
C3_NeverLost ==
    \A m \in DOMAIN sent : InUnprocessed(sent[m].recipient_id, m) \/ InProcessed(m)

\* A receiver died between copy and delete: the message is under both keys.
C3_Witness ==
    /\ \A r \in Receivers : ~Running(r)
    /\ \E m \in DOMAIN sent :
          /\ Holds(SendKey("agent-b", m), m)
          /\ Holds(NewKey(SendKey("agent-b", m)), m)

ReturnedProcessed(r) ==
    \A i \in DOMAIN rc[r].messages :
        LET msg == rc[r].messages[i]
        IN /\ InProcessed(msg.message_id)
           /\ ~InUnprocessed(msg.recipient_id, msg.message_id)

\* C4 as stated (Spec): when get_messages returns a message, the message is in
\* the processed namespace and no longer in its recipient's unprocessed
\* namespace.
C4_ReturnedIsProcessed ==
    [][\A r \in Receivers :
          (Returning(r) /\ rc'[r].pc = "done") => ReturnedProcessed(r)]_vars

\* C5 (Spec): get_messages(limit=N), N >= 0, returns at most N messages and
\* moves at most N messages to the processed namespace.
C5_AtMostLimit ==
    \A r \in Receivers :
        Running(r) => Len(rc[r].messages) <= rc[r].limit /\ rc[r].moved <= rc[r].limit

\* The call returns limit = 1 message while another one is still pending.
C5_Witness ==
    \E r \in Receivers :
        /\ Returning(r) /\ rc[r].agent = "agent-b"
        /\ rc[r].limit = 1 /\ Len(rc[r].messages) = 1 /\ rc[r].moved = 1
        /\ \E m \in DOMAIN sent : Holds(SendKey("agent-b", m), m)

\* C16: send_message calls the store's put exactly once; when the put fails
\* the error propagates, no message_id is returned, nothing is retried and the
\* bucket is unchanged.
C16_SendFailurePropagates ==
    [][lastSend' # lastSend
          => /\ lastSend'.puts = 1
             /\ lastSend'.outcome = "raised"
                   => /\ lastSend'.message_id = None
                      /\ bucket' = bucket
                      /\ nextId' = nextId /\ sent' = sent]_vars

C16_Witness ==
    /\ lastSend.outcome = "raised"
    /\ lastSend.puts = 1
    /\ lastSend.message_id = None
    /\ \E k \in DOMAIN bucket : HasPrefix(k, "agent-b")

\* The move of m is complete: its deposit key is deleted and a key of the
\* processed namespace holds it.
MoveCompleted(m) ==
    /\ m \in DOMAIN sent
    /\ SendKey(sent[m].recipient_id, m) \notin DOMAIN bucket
    /\ InProcessed(m)

\* C19: a message whose move to the processed namespace is complete is not
\* under the unprocessed prefix of any agent, so that no later listing of any
\* recipient's mailbox shows it.
C19_ProcessedIsIrreversible ==
    \A m \in DOMAIN sent : MoveCompleted(m) =>
        \A a \in AgentIds : ~InUnprocessed(a, m)

\* A handle of r's batch was consumed by another receiver after r listed it.
SkipStep(r) ==
    /\ rc[r].pc = "loop" /\ rc'[r].pc = "loop"
    /\ rc'[r].todo # rc[r].todo

\* C20: a receiver that finds a listed message consumed by another receiver
\* skips it silently: its call does not raise for it, the skipped message is
\* neither moved nor added to its batch, and the call goes on.
C20_RaceLoserSkipsSilently ==
    [][\A r \in Receivers :
          /\ rc'[r].error # "NoSuchKey"
          /\ SkipStep(r) => /\ bucket' = bucket
                            /\ rc'[r].messages = rc[r].messages
                            /\ rc'[r].moved = rc[r].moved]_vars

\* C22: a get_messages call of an engine bound to agent X fetches, moves and
\* returns only messages whose recipient_id is X, for every agent_id, the one
\* equal to "processed" included.
C22_MailboxIsolation ==
    /\ \A r \in Receivers : \A i \in DOMAIN rc[r].messages :
          rc[r].messages[i].recipient_id = rc[r].agent
    /\ \A p \in returned : sent[p[2]].recipient_id = p[1]

\* The messages a running call has taken whose move is complete and that no
\* get_messages call has returned.
MovedUnreturned(r) ==
    {rc[r].messages[i].message_id : i \in DOMAIN rc[r].messages} \cap
    {m \in DOMAIN sent : MoveCompleted(m) /\ \A a \in AgentIds : <<a, m>> \notin returned}

\* C23: when a get_messages call ends with an error of a store operation, no
\* message it has moved to the processed namespace is left unreturned.
C23_NoLossInsideBatch ==
    [][\A r \in Receivers :
          (Running(r) /\ rc'[r].pc = "raised") => MovedUnreturned(r) = {}]_vars

(***************************************************************************)
(* Claims about the registry.                                              *)
(***************************************************************************)
GetReturned == lastOp.op = "get" /\ lastOp.outcome = "returned"
HasTuple(card) == card.metadata.t = "tuple"
\* What a card reads back as once stored.
ReadBack(card) == FromItem(SerializeItem(card))

\* C6 as stated: after register_agent(A) returned True, get_agent(A.agent_id)
\* returns a card equal to A in every field, for every card A.
C6_RoundTripAnyCard ==
    (GetReturned /\ lastOp.arg \in DOMAIN lastReg)
        => /\ lastOp.value.kind = "card"
           /\ CardEq(lastOp.value.card, lastReg[lastOp.arg])

\* C6 amended: after register_agent(A) returned True, get_agent(A.agent_id)
\* returns a card equal to A in every field, for every card A none of whose
\* values is a tuple (a stored int reads back as an equal Decimal).
C6_RoundTripTupleFreeCard ==
    (GetReturned /\ lastOp.arg \in DOMAIN lastReg /\ ~HasTuple(lastReg[lastOp.arg]))
        => /\ lastOp.value.kind = "card"
           /\ CardEq(lastOp.value.card, lastReg[lastOp.arg])

C6_Witness ==
    /\ GetReturned
    /\ lastOp.arg \in DOMAIN lastReg
    /\ lastReg[lastOp.arg].rate_limit = PyInt
    /\ lastReg[lastOp.arg].metadata = PyRegion
    /\ lastOp.value.kind = "card"
    /\ lastOp.value.card.rate_limit.t = "Decimal"

\* C7: the registry holds at most one card per agent_id, that card is the one
\* of the latest successful register_agent for the id, and get_agent(id)
\* returns that card as it reads back, never the card it replaced.
C7_LastWriteWins ==
    /\ \A id \in RegAgentIds : Cardinality(ItemsOf(table, id)) <= 1
    /\ \A id \in RegAgentIds :
          IF id \in DOMAIN lastReg
          THEN ItemsOf(table, id) = {SerializeItem(lastReg[id])}
          ELSE ItemsOf(table, id) = {}
    /\ (GetReturned /\ lastOp.arg \in DOMAIN lastReg)
          => lastOp.value = CardValue(ReadBack(lastReg[lastOp.arg]))

C7_Witness ==
    /\ GetReturned
    /\ lastOp.arg \in replaced
    /\ lastOp.value = CardValue(ReadBack(lastReg[lastOp.arg]))

\* C8: find_agents_by_capability(c) returns exactly the registered cards whose
\* capabilities contain c.
C8_FindReturnsMatching ==
    lastOp.op = "find"
        => /\ lastOp.outcome = "returned"
           /\ lastOp.value = CardsValue(CardsWith(table, lastOp.arg))

RegistrationFailed(a) == a \in DOMAIN agents /\ ~agents[a].registered

C9Step ==
    /\ lastOp'.op \in {"register", "construct"} => lastOp'.outcome = "returned"
    /\ lastOp'.op = "register"
          => /\ lastOp'.value.kind = "bool"
             /\ ~lastOp'.dirOk => lastOp'.value = BoolValue(FALSE)
             /\ lastOp'.value = BoolValue(FALSE) => table' = table
    /\ (lastOp'.op = "construct" /\ ~lastOp'.dirOk)
          => /\ lastOp'.arg \in DOMAIN agents'
             /\ ~agents'[lastOp'.arg].registered
             /\ table' = table
    /\ \A a \in RegAgentIds :
          RegistrationFailed(a) =>
              /\ ~agents[a].processed => ENABLED Process(a)
              /\ a \notin engines => ENABLED BindEngine(a)

\* C9: register_agent never raises; when the directory put fails it returns
\* False and the registry is unchanged; an agent whose registration failed is
\* constructed all the same and can process input and be bound to a mailbox
\* engine.
C9_RegisterFailureIsNotFatal == [][C9Step]_vars

C9_Witness ==
    /\ lastOp.op = "register"
    /\ lastOp.value = BoolValue(FALSE)
    /\ \E a \in RegAgentIds :
          /\ RegistrationFailed(a)
          /\ agents[a].processed
          /\ a \in engines
          /\ ItemsOf(table, a) = {}

\* C10: get_agent of an unregistered agent_id returns None without an error;
\* a directory failure during get_agent or find_agents_by_capability is raised
\* to the caller, never returned as None or as an empty list.
C10_AbsentIsNotUnavailable ==
    /\ lastOp.op = "get" =>
          /\ (lastOp.dirOk /\ lastOp.arg \notin DOMAIN lastReg)
                => lastOp.outcome = "returned" /\ lastOp.value = NoneValue
          /\ ~lastOp.dirOk
                => lastOp.outcome = "raised" /\ lastOp.value.kind = "error"
    /\ (lastOp.op = "find" /\ ~lastOp.dirOk)
          => lastOp.outcome = "raised" /\ lastOp.value.kind = "error"

C10_Witness ==
    /\ lastOp.op = "get"
    /\ ~lastOp.dirOk
    /\ lastOp.outcome = "raised"
    /\ table # {}
    /\ lastOp.arg \notin DOMAIN lastReg

(***************************************************************************)
(* Claims about the MCP client.                                            *)
(***************************************************************************)
RECURSIVE Pow2(_)
Pow2(n) == IF n = 0 THEN 1 ELSE 2 * Pow2(n - 1)

\* The call ended with a 2xx reply.
Replied == mc.pc = "done" /\ mc.response # NoResponse
\* The call ended because the retry loop ran out of attempts.
Exhausted == mc.pc = "done" /\ mc.response = NoResponse

\* C11: a call whose transport fails on attempts 1 and 2 and succeeds on
\* attempt 3 returns the reply's MCPResponse after exactly three requests and
\* exactly two sleeps, the sleep after failed attempt k being
\* base_delay * 2^(k-1).
C11_TwoFailuresThenSuccess ==
    (Replied /\ Len(mc.failures) = 2)
        => /\ mc.requests = 3
           /\ Len(mc.sleeps) = 2
           /\ \A k \in 1..2 : mc.sleeps[k] = BaseDelay * Pow2(k - 1)
           /\ mc.response = MCPResponse(mc.body)
           /\ mc.wrapper = "call" => mc.outcome = "returned" /\ mc.result = mc.response

C11_Witness ==
    /\ Replied
    /\ mc.wrapper = "call"
    /\ mc.failures = <<"Timeout", "ConnectionError">>
    /\ mc.response.status = "success"
    /\ mc.sleeps = <<1, 2>>

\* C12: a call whose every attempt fails makes exactly max_attempts requests,
\* sleeps exactly max_attempts - 1 times, and raises the failure of the last
\* attempt.
C12_ExhaustedRaisesLast ==
    Exhausted
        => /\ mc.requests = MaxAttempts
           /\ Len(mc.failures) = MaxAttempts
           /\ Len(mc.sleeps) = MaxAttempts - 1
           /\ mc.outcome = "raised"
           /\ mc.error = mc.failures[MaxAttempts]

C12_Witness ==
    /\ Exhausted
    /\ mc.failures = <<"HTTPError", "Timeout", "ConnectionError">>
    /\ mc.error = "ConnectionError"

\* C13: a 2xx reply whose status is not "success" ends the call: it is never
\* retried. When the first attempt gets it, the call makes one request, sleeps
\* zero times and returns, without raising, an MCPResponse with the reply's
\* status and errors, whose success is false.
C13_ApplicationErrorNotRetried ==
    (mc.body # NoBody /\ DictGet(mc.body, "status", "error") # "success")
        => /\ Replied
           /\ mc.requests = Len(mc.failures) + 1
           /\ mc.failures = <<>> => mc.requests = 1 /\ mc.sleeps = <<>>
           /\ mc.wrapper = "call" =>
                 /\ mc.outcome = "returned"
                 /\ mc.result.status = DictGet(mc.body, "status", "error")
                 /\ mc.result.errors = DictGet(mc.body, "errors", <<>>)
                 /\ ~Success(mc.result)

C13_Witness ==
    /\ Replied
    /\ mc.wrapper = "call"
    /\ mc.failures = <<>>
    /\ mc.body = [status |-> "error", errors |-> <<"E1", "E2">>]
    /\ mc.requests = 1
    /\ mc.outcome = "returned"

\* C14: when the reply's status is not "success", get_capabilities returns the
\* empty list without raising; it returns a non-empty capability list only
\* when the status is exactly "success", and then the list of the reply's data.
C14_CapabilitiesEmptyOnNonSuccess ==
    (Replied /\ mc.wrapper = "get_capabilities")
        => /\ DictGet(mc.body, "status", "error") # "success"
                 => mc.outcome = "returned" /\ mc.result = <<>>
           /\ (mc.outcome = "returned" /\ mc.result # <<>>)
                 => /\ "status" \in DOMAIN mc.body /\ mc.body.status = "success"
                    /\ mc.result = mc.body.data.capabilities

C14_Witness ==
    /\ Replied
    /\ mc.wrapper = "get_capabilities"
    /\ mc.body = [status |-> "error", data |-> [capabilities |-> <<"search", "plan">>]]
    /\ mc.outcome = "returned"
    /\ mc.result = <<>>

\* C15: run_tool returns the reply's data when the status is "success", and
\* for every other status returns {"error": errors} with the reply's errors
\* list, without raising.
C15_RunToolErrorsAsValue ==
    (Replied /\ mc.wrapper = "run_tool")
        => /\ mc.outcome = "returned"
           /\ mc.result = IF DictGet(mc.body, "status", "error") = "success"
                          THEN DictGet(mc.body, "data", EmptyDict)
                          ELSE [error |-> DictGet(mc.body, "errors", <<>>)]

C15_Witness ==
    /\ Replied
    /\ mc.wrapper = "run_tool"
    /\ mc.body = [status |-> "partial", data |-> [output |-> "42"],
                  errors |-> <<"E1", "E2">>]
    /\ mc.result = [error |-> <<"E1", "E2">>]

(***************************************************************************)
(* Claims about the client cache.                                          *)
(***************************************************************************)
DistinctInstances ==
    \A p, q \in DOMAIN lastInst : p # q => lastInst[p] # lastInst[q]

\* C17 as stated: a call with a pair requested before returns the instance the
\* earlier call returned, whatever was requested in between; different pairs
\* get different instances; the cache never holds more than its size bound.
C17_SameInstanceAlways ==
    /\ lastGet.prev # 0 => lastGet.inst = lastGet.prev
    /\ DistinctInstances
    /\ Len(cache) <= CacheSize

\* C17 amended: a call with a pair requested before returns the instance the
\* earlier call returned when fewer than maxsize other distinct pairs were
\* requested in between (the entry was not evicted); different pairs get
\* different instances; the cache never holds more than its size bound.
C17_SameInstanceUntilEvicted ==
    /\ (lastGet.prev # 0 /\ lastGet.between < CacheSize) => lastGet.inst = lastGet.prev
    /\ DistinctInstances
    /\ Len(cache) <= CacheSize
    /\ \A i, j \in DOMAIN cache : i # j => cache[i].pair # cache[j].pair

C17_Witness ==
    /\ lastGet.prev # 0
    /\ lastGet.between = CacheSize - 1
    /\ lastGet.inst = lastGet.prev
    /\ Len(cache) = CacheSize
    /\ made > CacheSize

(***************************************************************************)
(* Claims about the handler.                                               *)
(***************************************************************************)
HandlerFailed == hd.pc = "done" /\ hd.failed

\* C18: every failing outcome of the handler is a returned payload that has
\* an "error" entry, has a traceback only when the debug flag is set, and has
\* the execution_time.
C18_FailurePayloadHasTiming ==
    HandlerFailed
        => /\ "error" \in DOMAIN hd.payload
           /\ "traceback" \in DOMAIN hd.payload => hd.debug
           /\ "execution_time" \in DOMAIN hd.payload

(***************************************************************************)
(* Termination.                                                            *)
(***************************************************************************)
\* The handles r's call has fetched or has still to reach.
Handles(r) == Len(rc[r].messages) + Cardinality(rc[r].todo)

\* C21: every MCP call ends, after at most max_attempts attempts whatever
\* each attempt's outcome; every get_messages call ends, after it has gone
\* through at most limit handles.
C21_CallsTerminate ==
    /\ [](mc.requests <= MaxAttempts /\ mc.attempt < MaxAttempts)
    /\ [](\A r \in Receivers : Running(r) => Handles(r) <= rc[r].limit)
    /\ (mc.pc = "attempt") ~> (mc.pc = "done")
    /\ \A r \in Receivers : Running(r) ~> ~Running(r)

C21_Witness ==
    /\ rc["r1"].pc = "done" /\ rc["r2"].pc = "raised"
    /\ calls = MaxCalls
    /\ \A m \in DOMAIN sent : MoveCompleted(m)
    /\ Cardinality(DOMAIN sent) = MaxMsgs

=============================================================================
